---- MODULE Spec2Model ----
(***************************************************************************)
(* squeue-gui: a Qt table model (SqueueGUIModel) holding a snapshot of the *)
(* Slurm job queue, and the main window (SQGUIMainWindow) that refreshes   *)
(* it from `squeue --json` on a button click or on a QTimer.               *)
(*                                                                         *)
(* Three specifications:                                                   *)
(*   ModelSpec  the SqueueGUIModel class on its own, driven by arbitrary   *)
(*              calls of update_model / sort / setData;                    *)
(*   Spec       the whole window: Qt event loop, timer, widgets, refresh;  *)
(*   DataSpec   the view reading cells with data() from snapshots that     *)
(*              refresh installs, under the local time zones in            *)
(*              UtcOffsets.                                                *)
(*                                                                         *)
(* Column indices are 0-based as in the source; sequences are 1-based, so  *)
(* column k of a row is row[k + 1].                                        *)
(*                                                                         *)
(* refresh is the one handler modelled in two steps: it blocks the GUI     *)
(* thread in subprocess.run, and what the user and the timer do meanwhile  *)
(* waits in `queue` / `areftmr.due` until it has returned.  Cells of one   *)
(* column are of one Python type and comparable (no None in a column).     *)
(***************************************************************************)
EXTENDS Integers, Sequences, FiniteSets, Bags, TLC

VARIABLES
    _array,      \* SqueueGUIModel._array: a 2-D ndarray [shape, rows]
    _headers,    \* SqueueGUIModel._headers
    r,           \* SqueueGUIModel.r
    c,           \* SqueueGUIModel.c
    _sortby,     \* SqueueGUIModel._sortby (0-based column index)
    _sortord,    \* SqueueGUIModel._sortord
    signals,     \* Qt signals emitted by the model during the last call
    op,          \* the last call made on the model: [name, column, order, ret]
    pre,         \* what the model held when that call was made
    shown,       \* the last call of data(): [valid, row, column, role, utcoffset, ret]
    arefcnt,     \* SQGUIMainWindow.arefcnt
    arefrte,     \* SQGUIMainWindow.arefrte (milliseconds)
    areftmr,     \* SQGUIMainWindow.areftmr: QTimer [active, interval, due]
    w_arefbut,   \* "Auto refresh" check box: isChecked()
    w_arefrte,   \* rate line edit: text(), a sequence of characters
    w_selffil,   \* "Limit to self job" check box: isChecked()
    pc,          \* what the GUI thread is doing: "idle" or "refresh"
    queue,       \* user input waiting for the event loop, oldest first
    inflight,    \* number of `squeue --json` calls that have not returned
    cycle,       \* the last refresh: [cause, result, records, self]
    running      \* the process is alive

tableVars == <<_array, _headers, r, c, _sortby, _sortord>>
modelVars == <<_array, _headers, r, c, _sortby, _sortord, signals, op, pre, shown>>
timerVars == <<arefrte, areftmr, w_arefbut, w_arefrte>>
windowVars == <<arefcnt, arefrte, areftmr, w_arefbut, w_arefrte, w_selffil,
                pc, queue, inflight, cycle, running>>
vars == <<_array, _headers, r, c, _sortby, _sortord, signals, op, pre, shown,
          arefcnt, arefrte, areftmr, w_arefbut, w_arefrte, w_selffil,
          pc, queue, inflight, cycle, running>>

----------------------------------------------------------------------------
(* Bounds *)

MaxRows == 3          \* longest array handed to update_model in ModelSpec
MaxQueue == 1         \* user inputs that can wait while the GUI thread is busy
MaxCnt == 2           \* refreshes counted by arefcnt before the model stops

----------------------------------------------------------------------------
(* Qt constants and cell values *)

AscendingOrder  == "Qt.AscendingOrder"
DescendingOrder == "Qt.DescendingOrder"
SortOrders      == {AscendingOrder, DescendingOrder}

EditRole    == "Qt.EditRole"
DisplayRole == "Qt.DisplayRole"

SQUEUE_TIMEVAR == {"accrue_time", "eligible_time", "end_time",
                   "last_sched_evaluation", "start_time", "submit_time"}

sqcols == <<"job_id", "job_state", "user_name", "qos",
            "node_count", "cpus", "start_time">>

\* Columns whose cells are Python str; every other column holds int, except
\* the SQUEUE_TIMEVAR columns, which hold pandas Timestamps after refresh.
StrColumns == {"job_state", "user_name", "qos"}

\* Python's str ordering (code-point lexicographic) on the strings used here.
StrOrder == <<"COMPLETED", "PENDING", "RUNNING", "alice", "bob", "high", "normal">>

StrRank(s) == CHOOSE i \in 1..Len(StrOrder) : StrOrder[i] = s

\* The value Python's `<` compares for a cell of the named column.
SortKey(name, v) ==
    IF name \in StrColumns THEN StrRank(v)
    ELSE IF name \in SQUEUE_TIMEVAR THEN v.epoch
    ELSE v

\* A 2-D numpy array: np.shape(a) is a.shape, a[i] is a.rows[i + 1].
ndarray(rows, ncols) == [shape |-> <<Len(rows), ncols>>, rows |-> rows]

\* self.array[:, column] as the keys `<` is applied to
ColumnKeys(array, headers, column) ==
    [i \in 1..Len(array.rows) |->
        SortKey(headers[column + 1], array.rows[i][column + 1])]

----------------------------------------------------------------------------
(* numpy *)

\* ndarray.argsort() with the default kind on an object column.  numpy's
\* introsort is a plain insertion sort on spans of at most 16 elements:
\* element n is moved left past the elements strictly greater than it.
\* Result: 1-based row numbers in sorted order.
RECURSIVE InsertionArgsort(_, _)
InsertionArgsort(keys, n) ==
    IF n = 0 THEN <<>>
    ELSE LET s == InsertionArgsort(keys, n - 1)
             p == Cardinality({j \in 1..Len(s) : keys[s[j]] <= keys[n]})
         IN  SubSeq(s, 1, p) \o <<n>> \o SubSeq(s, p + 1, Len(s))

argsort(keys) == InsertionArgsort(keys, Len(keys))

\* A bug Reversed could have: the slice is seq[:0:-1] and leaves out the
\* first element.
Reversed_short(s) == [i \in 1..(Len(s) - 1) |-> s[Len(s) + 1 - i]]

\* seq[::-1]
Reversed(s) == [i \in 1..Len(s) |-> s[Len(s) + 1 - i]]

\* array[argsort]  (fancy indexing by a sequence of row numbers)
Take(array, idx) ==
    [shape |-> <<Len(idx), array.shape[2]>>,
     rows  |-> [i \in 1..Len(idx) |-> array.rows[idx[i]]]]

\* Lines 79-82 / 141-144: argsort the column, reverse for AscendingOrder,
\* and reindex the array.
Resort(array, headers, column, order) ==
    LET a == argsort(ColumnKeys(array, headers, column))
    IN  Take(array, IF order = AscendingOrder THEN Reversed(a) ELSE a)

\* list.index(x), 0-based
IndexOf(s, x) == (CHOOSE i \in 1..Len(s) : s[i] = x /\ \A j \in 1..(i-1) : s[j] # x) - 1

InSeq(x, s) == \E i \in 1..Len(s) : s[i] = x

----------------------------------------------------------------------------
(* SqueueGUIModel *)

\* The record kept in `op` for a call; column/order are the arguments of
\* sort (and the row/column of setData), ret the value returned or the
\* exception raised.
Call(name, column, order, ret) ==
    [name |-> name, column |-> column, order |-> order, ret |-> ret]

NoCall == Call("__init__", 0, 0, "None")

\* What a call saw before it ran.  `array` is the row sequence the call's
\* argsort is applied to: the old rows for sort, new_array for update_model.
Pre(array) == [array |-> array, headers |-> _headers,
               sortby |-> _sortby, sortord |-> _sortord]

\* SqueueGUIModel.__init__(array, headers)
ModelInit(array, headers) ==
    /\ _array   = array
    /\ _headers = headers
    /\ r = array.shape[1]
    /\ c = array.shape[2]
    /\ _sortby  = 0
    /\ _sortord = DescendingOrder

\* signal.emit(): the entry kept in `signals`.  Slots run inside emit, so
\* the entry holds what a slot finds in the model at that moment: the
\* headers, the sort column, whether rowCount() and columnCount() are the
\* dimensions of the array and of the headers, whether the rows are in
\* order on the sort column, and whether the table is empty.
emit(name, array, headers, rowCount, columnCount, sortby) ==
    LET keys == ColumnKeys(array, headers, sortby)
    IN  [ name |-> name, headers |-> headers, sortby |-> sortby,
          consistent |-> /\ rowCount = array.shape[1]
                         /\ columnCount = array.shape[2]
                         /\ columnCount = Len(headers),
          ordered |-> \/ \A i \in 1..(Len(keys) - 1) : keys[i] <= keys[i + 1]
                      \/ \A i \in 1..(Len(keys) - 1) : keys[i] >= keys[i + 1],
          empty |-> rowCount = 0 ]

\* A bug ResolveSortColumn could have: the sort column always falls back to 0.
ResolveSortColumn_reset(old_sortvar, new_headers) == 0

\* Lines 71-74: where the old sort column is in the new headers
ResolveSortColumn(old_sortvar, new_headers) ==
    IF ~InSeq(old_sortvar, new_headers) THEN 0
    ELSE IndexOf(new_headers, old_sortvar)

\* A bug update_model could have: layoutChanged is emitted once the new array
\* and headers are in place but before the dimensions are updated and the
\* rows are resorted.
update_model_early(new_array, new_headers) ==
    LET old_sortvar == _headers[_sortby + 1]
        column == ResolveSortColumn(old_sortvar, new_headers)
    IN  /\ _headers' = new_headers
        /\ r' = new_array.shape[1]
        /\ c' = new_array.shape[2]
        /\ _sortby' = column
        /\ _sortord' = _sortord
        /\ _array' = Resort(new_array, new_headers, column, _sortord)
        /\ signals' = << emit("layoutAboutToBeChanged", _array, _headers, r, c, _sortby),
                         emit("layoutChanged", new_array, new_headers, r, c, column) >>
        /\ op' = Call("update_model", 0, 0, "None")
        /\ pre' = Pre(new_array)
        /\ UNCHANGED shown

\* SqueueGUIModel.update_model(new_array, new_headers): lines 63-84, with
\* layoutAboutToBeChanged emitted first and layoutChanged last.
update_model(new_array, new_headers) ==
    LET old_sortvar == _headers[_sortby + 1]
        column == ResolveSortColumn(old_sortvar, new_headers)
    IN  /\ _headers' = new_headers
        /\ r' = new_array.shape[1]
        /\ c' = new_array.shape[2]
        /\ _sortby' = column
        /\ _sortord' = _sortord
        /\ _array' = Resort(new_array, new_headers, column, _sortord)
        /\ signals' = << emit("layoutAboutToBeChanged", _array, _headers, r, c, _sortby),
                         emit("layoutChanged", _array', _headers', r', c', _sortby') >>
        /\ op' = Call("update_model", 0, 0, "None")
        /\ pre' = Pre(new_array)
        /\ UNCHANGED shown

\* SqueueGUIModel.sort(column, order)
sort(column, order) ==
    /\ _sortby' = column
    /\ _sortord' = order
    /\ _array' = Resort(_array, _headers, column, order)
    /\ signals' = << emit("layoutAboutToBeChanged", _array, _headers, r, c, _sortby),
                     emit("layoutChanged", _array', _headers, r, c, column) >>
    /\ op' = Call("sort", column, order, "None")
    /\ pre' = Pre(_array)
    /\ UNCHANGED <<_headers, r, c, shown>>

\* QModelIndex as seen by setData: index.isValid(), index.row(), index.column()
QModelIndex(valid, row, column) == [valid |-> valid, row |-> row, column |-> column]

\* SqueueGUIModel.setData(index, value, role).  The guards return False; past
\* them line 133 evaluates self.array.values, and self.array is a
\* numpy.ndarray, which has no attribute `values`: AttributeError is raised
\* before any cell is assigned and before dataChanged is emitted.
setData(index, value, role) ==
    LET ret == IF ~index.valid THEN "False"
               ELSE IF role # EditRole THEN "False"
               ELSE IF index.row < 0 \/ index.row >= r THEN "False"
               ELSE IF index.column < 0 \/ index.column >= c THEN "False"
               ELSE "AttributeError"
    IN  /\ op' = Call("setData", index.column, index.row, ret)
        /\ pre' = Pre(_array)
        /\ signals' = <<>>
        /\ UNCHANGED <<tableVars, shown>>

\* Local time zones the program can run in, as seconds east of UTC: UTC,
\* US Eastern standard time and Central European time.
UtcOffsets == {0, -18000, 3600}

\* isinstance(value, datetime.date) for the cell of a column: the cells that
\* are pandas Timestamps are those of the columns refresh converts.
isinstance_date(column) == _headers[column + 1] \in SQUEUE_TIMEVAR

\* value.strftime('%s') as an integer: the C library reads the fields of the
\* naive Timestamp as local time and returns the epoch second of that
\* local time.
strftime_s(value, utcoffset) == value.epoch - utcoffset

\* value.isoformat(): the calendar fields of the naive Timestamp (epochs
\* within January 1970)
isoformat(value) ==
    [ year |-> 1970, month |-> 1, day |-> 1 + (value.epoch \div 86400),
      hour |-> (value.epoch % 86400) \div 3600,
      minute |-> (value.epoch % 3600) \div 60,
      second |-> value.epoch % 60 ]

\* What data() returns: None, a str, an int, or the str isoformat() makes
\* (kept as its calendar fields)
ReturnedNone == [type |-> "NoneType"]
ReturnedStr(s) == [type |-> "str", str |-> s]
ReturnedInt(n) == [type |-> "int", int |-> n]
ReturnedIso(d) == [type |-> "isoformat", date |-> d]

\* SqueueGUIModel.data(index, role) under a local time zone
data(index, role, utcoffset) ==
    IF ~index.valid THEN ReturnedNone
    ELSE IF index.row < 0 \/ index.row >= r THEN ReturnedNone
    ELSE IF index.column < 0 \/ index.column >= c THEN ReturnedNone
    ELSE IF role = DisplayRole
    THEN LET value == _array.rows[index.row + 1][index.column + 1]
         IN  IF isinstance_date(index.column)
             THEN IF strftime_s(value, utcoffset) = 18000
                  THEN ReturnedStr("N/A")
                  ELSE ReturnedIso(isoformat(value))
             ELSE IF _headers[index.column + 1] \in StrColumns
                  THEN ReturnedStr(value)
                  ELSE ReturnedInt(value)
    ELSE ReturnedNone

\* The record kept in `shown` for a call of data()
Shown(index, role, utcoffset, ret) ==
    [valid |-> index.valid, row |-> index.row, column |-> index.column,
     role |-> role, utcoffset |-> utcoffset, ret |-> ret]

NoData == Shown(QModelIndex(FALSE, 0, 0), "none", 0, ReturnedNone)

----------------------------------------------------------------------------
(* The data source: what `squeue --json` prints under ['jobs'] *)

uname == "alice"      \* getpass.getuser()

Job(id, state, user, qos, nodes, cpus, start) ==
    [job_id |-> id, job_state |-> state, user_name |-> user, qos |-> qos,
     node_count |-> nodes, cpus |-> cpus, start_time |-> start,
     partition |-> "debug"]

\* Queue contents squeue can report.  The first is the two-job queue of the
\* end-to-end scenario; the second has cpus 4, 1, 2, two jobs of the user
\* and a record without job_state; the third is an empty queue.
Queues ==
    { << Job(1, "RUNNING", "alice", "normal", 1, 4, 18000),
         Job(2, "COMPLETED", "bob", "normal", 1, 1, 0) >>,
      << Job(1, "RUNNING", "alice", "normal", 1, 4, 18000),
         Job(2, "PENDING", "bob", "high", 2, 1, 0),
         Job(3, "RUNNING", "alice", "normal", 1, 2, 100),
         [job_id |-> 4, user_name |-> "alice", qos |-> "high",
          node_count |-> 1, cpus |-> 1, start_time |-> 0] >>,
      << >> }

\* Outcomes of lines 287-293: the jobs, or an exception (squeue exits
\* non-zero, prints no JSON, or the JSON has no 'jobs').
SourceError == "CalledProcessError"
SourceOutcomes ==
    { [error |-> "None", jobs |-> q] : q \in Queues }
    \cup { [error |-> SourceError, jobs |-> <<>>] }

----------------------------------------------------------------------------
(* pandas *)

NaN == "NaN"

\* pd.DataFrame.from_dict(list of dicts): the columns are the keys seen in
\* any record; a record without a key gets NaN there.
from_dict(records) ==
    LET columns == UNION { DOMAIN records[i] : i \in 1..Len(records) }
    IN  [columns |-> columns,
         rows |-> [i \in 1..Len(records) |->
                     [f \in columns |->
                        IF f \in DOMAIN records[i] THEN records[i][f] ELSE NaN]]]

\* df[cols] raises KeyError when a name is not a column of df
HasColumns(df, cols) == \A k \in 1..Len(cols) : cols[k] \in df.columns

\* df[cols]: the named columns only
Project(df, cols) ==
    [columns |-> { cols[k] : k \in 1..Len(cols) },
     rows |-> [i \in 1..Len(df.rows) |->
                 [f \in { cols[k] : k \in 1..Len(cols) } |-> df.rows[i][f]]]]

\* df[df[col].isin(values)]
FilterIsin(df, col, values) ==
    [df EXCEPT !.rows = SelectSeq(df.rows, LAMBDA row : row[col] \in values)]

\* df[df[col] == value]
FilterEq(df, col, value) ==
    [df EXCEPT !.rows = SelectSeq(df.rows, LAMBDA row : row[col] = value)]

\* pd.to_datetime(seconds, unit='s'): a Timestamp that many seconds after
\* 1970-01-01 00:00:00
Timestamp(seconds) == [epoch |-> seconds]

\* Lines 308-310
ConvertTimes(df, cols) ==
    [df EXCEPT !.rows =
        [i \in 1..Len(df.rows) |->
            [f \in df.columns |->
                IF InSeq(f, cols) /\ f \in SQUEUE_TIMEVAR
                THEN Timestamp(df.rows[i][f]) ELSE df.rows[i][f]]]]

\* np.array(df.values) with the columns in the order of cols
Values(df, cols) ==
    ndarray([i \in 1..Len(df.rows) |->
                [k \in 1..Len(cols) |-> df.rows[i][cols[k]]]],
            Len(cols))

\* A bug KeepStates could have: the job_state filter is left out.
KeepStates_all(df) == df

\* Lines 299-301
KeepStates(df) == FilterIsin(df, "job_state", {"RUNNING", "PENDING"})

\* Lines 304-305
KeepSelf(df, selffil) == IF selffil THEN FilterEq(df, "user_name", uname) ELSE df

\* Lines 287-316 up to the call of update_model: the array refresh hands to
\* the model, or the exception that ends refresh before it gets there.
Snapshot(outcome, selffil) ==
    IF outcome.error # "None" THEN [error |-> outcome.error]
    ELSE LET df == from_dict(outcome.jobs)
         IN  IF ~HasColumns(df, sqcols) THEN [error |-> "KeyError"]
             ELSE [error |-> "None",
                   array |-> Values(ConvertTimes(KeepSelf(KeepStates(
                                Project(df, sqcols)), selffil), sqcols), sqcols)]

----------------------------------------------------------------------------
(* Text of the rate field *)

Digits == [c0 \in {"0", "1", "2", "3", "4", "5", "6", "7", "8", "9"} |->
             CASE c0 = "0" -> 0 [] c0 = "1" -> 1 [] c0 = "2" -> 2 [] c0 = "3" -> 3
               [] c0 = "4" -> 4 [] c0 = "5" -> 5 [] c0 = "6" -> 6 [] c0 = "7" -> 7
               [] c0 = "8" -> 8 [] c0 = "9" -> 9]

IsDigits(t) == Len(t) > 0 /\ \A i \in 1..Len(t) : t[i] \in DOMAIN Digits

RECURSIVE DigitsValue(_)
DigitsValue(t) ==
    IF Len(t) = 0 THEN 0
    ELSE 10 * DigitsValue(SubSeq(t, 1, Len(t) - 1)) + Digits[t[Len(t)]]

\* int(text) succeeds
IsInt(t) ==
    \/ IsDigits(t)
    \/ Len(t) > 1 /\ t[1] \in {"-", "+"} /\ IsDigits(Tail(t))

\* int(text)
int(t) ==
    IF t[1] = "-" THEN 0 - DigitsValue(Tail(t))
    ELSE IF t[1] = "+" THEN DigitsValue(Tail(t))
    ELSE DigitsValue(t)

\* str(1)
str1 == <<"1">>

\* QIntValidator(bottom, top).validate(text), for bottom >= 0: what the line
\* edit lets the user type (anything but Invalid).
QIntValidator(bottom, top, t) ==
    IF t = <<>> THEN "Intermediate"
    ELSE IF t[1] = "-" THEN "Invalid"
    ELSE IF ~IsInt(t) THEN "Invalid"
    ELSE IF int(t) >= bottom /\ int(t) <= top THEN "Acceptable"
    ELSE IF int(t) > top THEN "Invalid"
    ELSE "Intermediate"

\* Texts a user tries to put in the rate field
TextInputs == { <<>>, <<"0">>, <<"2">>,
                <<"1", "0", "0", "0", "0">>, <<"-", "5">>, <<"a">> }

----------------------------------------------------------------------------
(* QTimer *)

\* QTimer(): not running, interval 0
QTimer == [active |-> FALSE, interval |-> 0, due |-> FALSE]

\* A bug setInterval could have: it starts the timer, as QTimer.start(msec)
\* does.
setInterval_starting(tmr, msec) == [active |-> TRUE, interval |-> msec, due |-> FALSE]

\* QTimer.setInterval(msec): a running timer is restarted with the new
\* interval, a stopped one stays stopped.
setInterval(tmr, msec) == [tmr EXCEPT !.interval = msec, !.due = FALSE]

\* A bug start could have: the timer fires at once instead of after a full
\* interval.
start_immediate(tmr, msec) == [active |-> TRUE, interval |-> msec, due |-> TRUE]

\* QTimer.start(msec): running, first timeout a full interval from now
start(tmr, msec) == [active |-> TRUE, interval |-> msec, due |-> FALSE]

\* A bug stop could have: the timer is left running.
stop_ignored(tmr) == tmr

\* QTimer.stop()
stop(tmr) == [tmr EXCEPT !.active = FALSE, !.due = FALSE]

----------------------------------------------------------------------------
(* SQGUIMainWindow *)

\* SQGUIMainWindow.__init__ (with a squeue that passes the version check)
WindowInit ==
    /\ arefcnt = 0
    /\ arefrte = 1000
    /\ areftmr = QTimer
    /\ w_arefbut = FALSE
    /\ w_arefrte = str1
    /\ w_selffil = FALSE
    /\ pc = "idle"
    /\ queue = <<>>
    /\ inflight = 0
    /\ cycle = [cause |-> "none", result |-> "none", records |-> <<>>, self |-> FALSE]
    /\ running = TRUE

\* A bug RateInRange could have: zero passes the assertion.
RateInRange_zero(n) == n >= 0 /\ n < 10000

\* Line 272: the assertion on the parsed rate
RateInRange(n) == n > 0 /\ n < 10000

\* SQGUIMainWindow.change_autorefresh_rate(new_rate), called with the field
\* showing `text`: the values of <<arefrte, areftmr, w_arefrte>> it leaves.
\* On a bad rate the except branch calls setText(str(1)); when that changes
\* the text, textChanged fires and runs this handler again with "1" before
\* setText returns.
RECURSIVE change_autorefresh_rate(_, _, _, _)
change_autorefresh_rate(new_rate, rte, tmr, text) ==
    IF IsInt(new_rate) /\ RateInRange(int(new_rate))
    THEN <<int(new_rate) * 1000, setInterval(tmr, int(new_rate) * 1000), text>>
    ELSE IF text # str1
         THEN change_autorefresh_rate(str1, rte, tmr, str1)
         ELSE <<rte, tmr, text>>

\* textChanged(text) of the rate field: the user has changed the field to t
OnTextChanged(t) ==
    LET after == change_autorefresh_rate(t, arefrte, areftmr, t)
    IN  /\ arefrte' = after[1]
        /\ areftmr' = after[2]
        /\ w_arefrte' = after[3]
        /\ UNCHANGED <<arefcnt, w_arefbut>>

\* SQGUIMainWindow.toggle_autorefresh, on stateChanged of the check box
toggle_autorefresh(checked) ==
    /\ w_arefbut' = checked
    /\ IF checked
       THEN LET after == change_autorefresh_rate(w_arefrte, arefrte, areftmr, w_arefrte)
            IN  /\ arefcnt' = 0
                /\ arefrte' = after[1]
                /\ areftmr' = start(after[2], after[1])
                /\ w_arefrte' = after[3]
       ELSE /\ areftmr' = stop(areftmr)
            /\ UNCHANGED <<arefcnt, arefrte, w_arefrte>>

\* A bug LoopIdle could have: handlers are entered while refresh is waiting
\* for squeue (refresh moved off the GUI thread, or events pumped meanwhile).
LoopIdle_reentrant == TRUE

\* The GUI thread is in the event loop (app.exec_()), not inside a handler:
\* slots run on that one thread, and subprocess.run blocks it until squeue
\* has exited.
LoopIdle == pc = "idle"

\* SQGUIMainWindow.refresh, up to the point where it waits for squeue
refresh_begin(cause) ==
    /\ arefcnt < MaxCnt
    /\ arefcnt' = arefcnt + 1
    /\ pc' = "refresh"
    /\ inflight' = inflight + 1
    /\ cycle' = [cause |-> cause, result |-> "running",
                 records |-> <<>>, self |-> w_selffil]

\* An exception leaves refresh: nothing in the program catches it, so it
\* reaches PyQt, which prints the traceback and either returns to the event
\* loop (PyQt5 before 5.5) or calls qFatal() and aborts the process.
Uncaught(error, records) ==
    /\ cycle' = [cycle EXCEPT !.result = error, !.records = records]
    /\ running' \in BOOLEAN
    /\ UNCHANGED modelVars

\* SQGUIMainWindow.refresh from the return of subprocess.run to the end
refresh_end(outcome) ==
    LET snap == Snapshot(outcome, w_selffil)
        records == outcome.jobs
    IN  /\ pc = "refresh"
        /\ pc' = "idle"
        /\ inflight' = inflight - 1
        /\ IF snap.error # "None"
           THEN Uncaught(snap.error, records)
           ELSE /\ update_model(snap.array, sqcols)
                /\ cycle' = [cycle EXCEPT !.result = "ok", !.records = records]
                /\ UNCHANGED running
        /\ UNCHANGED <<arefcnt, timerVars, w_selffil, queue>>

----------------------------------------------------------------------------
(* Spec: the window under the Qt event loop *)

Ev(type, column, order, text) ==
    [type |-> type, column |-> column, order |-> order, text |-> text]

\* Columns whose header the user clicks
ClickColumns == {5}

\* What the user can do to the window
UserInputs ==
    { Ev("refresh", 0, "", <<>>), Ev("arefbut", 0, "", <<>>), Ev("selffil", 0, "", <<>>) }
    \cup { Ev("header", col, ord, <<>>) : col \in ClickColumns, ord \in SortOrders }
    \cup { Ev("text", 0, "", t) : t \in { u \in TextInputs :
                                       QIntValidator(1, 9999, u) # "Invalid" } }

Init ==
    /\ ModelInit(ndarray(<<>>, Len(sqcols)), sqcols)
    /\ signals = <<>>
    /\ op = NoCall
    /\ pre = [array |-> ndarray(<<>>, 0), headers |-> <<>>,
              sortby |-> 0, sortord |-> DescendingOrder]
    /\ shown = NoData
    /\ WindowInit

\* The user clicks or types while refresh keeps the GUI thread busy: the
\* input waits for the event loop.
UserInput ==
    /\ running
    /\ ~LoopIdle
    /\ Len(queue) < MaxQueue
    /\ \E e \in UserInputs : queue' = Append(queue, e)
    /\ UNCHANGED <<modelVars, arefcnt, timerVars, w_selffil, pc, inflight, cycle, running>>

\* The event loop delivers input e: the oldest waiting input, or, when none
\* is waiting, whatever the user does now.
Deliver(e) ==
    /\ running
    /\ LoopIdle
    /\ IF queue # <<>>
       THEN e = Head(queue) /\ queue' = Tail(queue)
       ELSE e \in UserInputs /\ queue' = queue

\* The interval of the running timer elapses.
TimerExpire ==
    /\ running
    /\ areftmr.active
    /\ ~areftmr.due
    /\ areftmr' = [areftmr EXCEPT !.due = TRUE]
    /\ UNCHANGED <<modelVars, arefcnt, arefrte, w_arefbut, w_arefrte, w_selffil,
                   pc, queue, inflight, cycle, running>>

\* areftmr.timeout -> refresh
OnTimeout ==
    /\ running
    /\ LoopIdle
    /\ areftmr.due
    /\ areftmr' = [areftmr EXCEPT !.due = FALSE]
    /\ refresh_begin("timer")
    /\ UNCHANGED <<modelVars, arefrte, w_arefbut, w_arefrte, w_selffil, queue, running>>

\* w_refresh.clicked -> refresh
OnRefreshClicked ==
    \E e \in UserInputs :
        /\ e.type = "refresh"
        /\ Deliver(e)
        /\ refresh_begin("click")
        /\ UNCHANGED <<modelVars, timerVars, w_selffil, running>>

\* squeue returns and refresh runs to its end.
RefreshReturns ==
    /\ running
    /\ \E outcome \in SourceOutcomes : refresh_end(outcome)

\* w_arefbut.stateChanged -> toggle_autorefresh
OnArefbutClicked ==
    \E e \in UserInputs :
        /\ e.type = "arefbut"
        /\ Deliver(e)
        /\ toggle_autorefresh(~w_arefbut)
        /\ UNCHANGED <<modelVars, w_selffil, pc, inflight, cycle, running>>

\* w_arefrte.textChanged -> change_autorefresh_rate; no signal when the
\* text is the one the field already shows.
RateEdited(e) ==
    /\ e.type = "text"
    /\ Deliver(e)
    /\ IF e.text # w_arefrte
       THEN OnTextChanged(e.text)
       ELSE UNCHANGED <<arefcnt, timerVars>>
    /\ UNCHANGED <<modelVars, w_selffil, pc, inflight, cycle, running>>

OnRateEdited == \E e \in UserInputs : RateEdited(e)

\* The "Limit to self job" box is (un)checked; nothing is connected to it.
OnSelffilClicked ==
    \E e \in UserInputs :
        /\ e.type = "selffil"
        /\ Deliver(e)
        /\ w_selffil' = ~w_selffil
        /\ UNCHANGED <<modelVars, arefcnt, timerVars, pc, inflight, cycle, running>>

\* A header section is clicked: the view calls sqmodel.sort.
OnHeaderClicked ==
    \E e \in UserInputs :
        /\ e.type = "header"
        /\ Deliver(e)
        /\ sort(e.column, e.order)
        /\ UNCHANGED <<arefcnt, timerVars, w_selffil, pc, inflight, cycle, running>>

Next ==
    \/ UserInput
    \/ TimerExpire
    \/ OnTimeout
    \/ OnRefreshClicked
    \/ RefreshReturns
    \/ OnArefbutClicked
    \/ OnRateEdited
    \/ OnSelffilClicked
    \/ OnHeaderClicked

Spec == Init /\ [][Next]_vars

----------------------------------------------------------------------------
(* ModelSpec: the model class under arbitrary callers *)

\* Schemas handed to the model: the sort column name can stay in place, move
\* to another index, or disappear between two of them.
Schemas == { <<"job_id", "cpus">>, <<"cpus", "job_id">>, <<"job_id", "qos">> }

\* The jobs a caller may put in a snapshot of each schema: cpus 4, 1, 2 under
\* the first, two jobs of equal qos under the third.
RowsOf(schema) ==
    IF schema = <<"job_id", "cpus">> THEN { <<1, 4>>, <<2, 1>>, <<3, 2>> }
    ELSE IF schema = <<"cpus", "job_id">> THEN { <<1, 1>>, <<2, 2>> }
    ELSE { <<1, "normal">>, <<2, "high">>, <<3, "normal">> }

RECURSIVE SeqsUpTo(_, _)
SeqsUpTo(S, n) ==
    IF n = 0 THEN { <<>> }
    ELSE LET shorter == SeqsUpTo(S, n - 1)
         IN  shorter \cup { Append(s, x) : s \in { t \in shorter : Len(t) = n - 1 }, x \in S }

\* Snapshots: arrays of at most MaxRows rows conforming to the schema
ArraysOf(schema) == { ndarray(rows, Len(schema)) : rows \in SeqsUpTo(RowsOf(schema), MaxRows) }

ModelSpecInit ==
    /\ \E schema \in Schemas : ModelInit(ndarray(<<>>, Len(schema)), schema)
    /\ signals = <<>>
    /\ op = NoCall
    /\ pre = [array |-> ndarray(<<>>, 0), headers |-> <<>>,
              sortby |-> 0, sortord |-> DescendingOrder]
    /\ shown = NoData
    /\ WindowInit

CallUpdateModel ==
    /\ \E schema \in Schemas : \E a \in ArraysOf(schema) : update_model(a, schema)
    /\ UNCHANGED windowVars

CallSort ==
    /\ \E column \in 0..(c - 1) : \E order \in SortOrders : sort(column, order)
    /\ UNCHANGED windowVars

CallSetData ==
    /\ \E valid \in BOOLEAN : \E rc \in { <<0, 0>>, <<-1, 0>>, <<r, 0>>, <<0, c>> } :
       \E role \in {EditRole, DisplayRole} :
          setData(QModelIndex(valid, rc[1], rc[2]), 0, role)
    /\ UNCHANGED windowVars

ModelNext == CallUpdateModel \/ CallSort \/ CallSetData

ModelSpec == ModelSpecInit /\ [][ModelNext]_vars

----------------------------------------------------------------------------
(* The view reading cells: DataSpec installs snapshots as refresh builds
   them and calls data() on the installed table. *)

\* start_time values of the jobs squeue reports
StartTimes == {0, 100, 18000, 21600}

DataQueues ==
    Queues \cup { << Job(1, "RUNNING", "alice", "normal", 1, 4, t) >> : t \in StartTimes }

\* Lines 296-316 of refresh for a list of jobs
InstallSnapshot ==
    /\ \E q \in DataQueues : \E selffil \in BOOLEAN :
          LET snap == Snapshot([error |-> "None", jobs |-> q], selffil)
          IN  /\ snap.error = "None"
              /\ update_model(snap.array, sqcols)
    /\ UNCHANGED windowVars

\* The view asks for a cell
data_called(index, role, utcoffset) ==
    /\ shown' = Shown(index, role, utcoffset, data(index, role, utcoffset))
    /\ UNCHANGED <<tableVars, signals, op, pre, windowVars>>

CallData ==
    \E valid \in BOOLEAN : \E row \in -1..r : \E column \in {-1, 0, 6, 7} :
    \E role \in {DisplayRole, EditRole} : \E utcoffset \in UtcOffsets :
        data_called(QModelIndex(valid, row, column), role, utcoffset)

DataNext == InstallSnapshot \/ CallData

DataSpec == Init /\ [][DataNext]_vars

----------------------------------------------------------------------------
(* Properties of the model class (checked under ModelSpec) *)

NonDecreasing(keys) == \A i \in 1..(Len(keys) - 1) : keys[i] <= keys[i + 1]
NonIncreasing(keys) == \A i \in 1..(Len(keys) - 1) : keys[i] >= keys[i + 1]

\* Smallest first for ascending, largest first for descending
OrderedAs(keys, order) ==
    IF order = AscendingOrder THEN NonDecreasing(keys) ELSE NonIncreasing(keys)

PermsOf(n) == { p \in [1..n -> 1..n] : \A i, j \in 1..n : p[i] = p[j] => i = j }

\* `after` is `before` reordered with rows of equal key left in the relative
\* order they had.
StableReorder(before, after, keys) ==
    /\ Len(after) = Len(before)
    /\ \E p \in PermsOf(Len(before)) :
          /\ \A i \in 1..Len(after) : after[i] = before[p[i]]
          /\ \A i, j \in 1..Len(after) :
                (i < j /\ keys[p[i]] = keys[p[j]]) => p[i] < p[j]

\* C2: rowCount()/columnCount() are the dimensions of the installed array
\* and the rows are sorted on the current sort column in the current sort
\* direction (ascending = smallest first).
C2_SortedAndDimensions ==
    /\ r = _array.shape[1]
    /\ c = _array.shape[2]
    /\ OrderedAs(ColumnKeys(_array, _headers, _sortby), _sortord)

\* C3: update_model leaves the sort on the column of the same name when the
\* new headers have it, on column 0 when they do not, and never changes the
\* sort direction.
C3_SchemaMigration ==
    op.name = "update_model" =>
        LET old_sortvar == pre.headers[pre.sortby + 1]
        IN  /\ InSeq(old_sortvar, _headers) => _headers[_sortby + 1] = old_sortvar
            /\ ~InSeq(old_sortvar, _headers) => _sortby = 0
            /\ _sortord = pre.sortord

\* An update_model after which the sort column kept its name at another,
\* non-zero index, under the non-default direction.
C3_Witness ==
    /\ op.name = "update_model"
    /\ InSeq(pre.headers[pre.sortby + 1], _headers)
    /\ _sortby # pre.sortby
    /\ _sortby # 0
    /\ _sortord = AscendingOrder
    /\ r >= 2

\* C7: sort(column, ascending) puts the smallest value of the column first,
\* sort(column, descending) the largest.
C7_SortDirection ==
    op.name = "sort" =>
        OrderedAs(ColumnKeys(_array, _headers, op.column), op.order)

\* C8: a second sort with the same column and order leaves the rows as the
\* first one left them.
C8_SortIdempotent ==
    [][ (/\ op.name = "sort"
         /\ op'.name = "sort"
         /\ op'.column = op.column
         /\ op'.order = op.order) => _array' = _array ]_vars

\* C9: sort, and the re-sort of update_model, keep rows of equal sort value
\* in the relative order they had before.
C9_SortStable ==
    op.name \in {"sort", "update_model"} =>
        StableReorder(pre.array.rows, _array.rows,
                      ColumnKeys(pre.array, _headers, _sortby))

----------------------------------------------------------------------------
(* Properties of the window (checked under Spec) *)

\* C1: a refresh that fails (squeue fails, or the snapshot cannot be built)
\* leaves rows, headers, sort column and direction as they were, leaves an
\* armed timer armed, and leaves the process running.
C1_FailedRefreshHarmless ==
    [][ (pc = "refresh" /\ pc' = "idle" /\ cycle'.result # "ok") =>
            /\ tableVars' = tableVars
            /\ areftmr.active => areftmr'.active
            /\ running' ]_vars

\* The intervals setInterval accepts according to the claim
C4_InRange(t) == IsInt(t) /\ int(t) >= 1 /\ int(t) <= 9999

\* C4: a rate outside 1..9999 (or not a number) leaves the interval that was
\* in effect; a rate in 1..9999 becomes the interval in effect.
C4_IntervalValidation ==
    [][ \A e \in UserInputs :
          (RateEdited(e) /\ e.text # w_arefrte) =>
              IF C4_InRange(e.text)
              THEN arefrte' = 1000 * int(e.text)
              ELSE arefrte' = arefrte ]_vars

\* C5: at most one refresh cycle (one squeue call) is in flight.
C5_MutualExclusion == inflight <= 1

\* A cycle is in flight while the timer has expired again and a click on
\* Refresh is waiting.
C5_Witness ==
    /\ inflight = 1
    /\ areftmr.due
    /\ queue # <<>>
    /\ Head(queue).type = "refresh"

\* C6: while auto refresh is switched off no timer-driven refresh starts.
C6_Cancellation ==
    [][ (pc = "idle" /\ pc' = "refresh" /\ cycle'.cause = "timer") => w_arefbut ]_vars

\* Auto refresh is off after a timer-driven cycle, with a sort and a change
\* of rate made since that cycle.
C6_Witness ==
    /\ ~w_arefbut
    /\ cycle.cause = "timer"
    /\ cycle.result = "ok"
    /\ op.name = "sort"
    /\ arefrte = 2000
    /\ pc = "idle"

\* Whether the claim keeps a source record
C10_Qualifies(rec, self) ==
    /\ "job_state" \in DOMAIN rec
    /\ rec.job_state \in {"RUNNING", "PENDING"}
    /\ self => ("user_name" \in DOMAIN rec /\ rec.user_name = uname)

\* The row the claim expects for a source record
C10_Row(rec) ==
    << rec.job_id, rec.job_state, rec.user_name, rec.qos,
       rec.node_count, rec.cpus, Timestamp(rec.start_time) >>

\* C10: after a successful refresh the rows are, one for one, the source
\* records in state RUNNING or PENDING (of the current user when the self
\* filter is set), each with its cells in the fixed column order.
C10_SnapshotFiltering ==
    cycle.result = "ok" =>
        LET kept == { i \in 1..Len(cycle.records) :
                        C10_Qualifies(cycle.records[i], cycle.self) }
        IN  /\ \A i \in 1..Len(_array.rows) :
                  /\ Len(_array.rows[i]) = 7
                  /\ _array.rows[i][2] \in {"RUNNING", "PENDING"}
                  /\ cycle.self => _array.rows[i][3] = uname
            /\ \E f \in [1..Len(_array.rows) -> kept] :
                  /\ \A i, j \in 1..Len(_array.rows) : f[i] = f[j] => i = j
                  /\ \A k \in kept : \E i \in 1..Len(_array.rows) : f[i] = k
                  /\ \A i \in 1..Len(_array.rows) :
                        _array.rows[i] = C10_Row(cycle.records[f[i]])

\* A successful refresh with the self filter set that kept two of four
\* records.
C10_Witness ==
    /\ cycle.result = "ok"
    /\ cycle.self
    /\ Len(cycle.records) = 4
    /\ r = 2

\* C11: setData succeeds exactly when the role is the edit role and the row
\* and column are in bounds; on success the cell holds the value and one
\* dataChanged for that cell is emitted; otherwise it returns False and
\* nothing changes.
C11_EditCellContract ==
    [][ \A valid \in BOOLEAN : \A row \in -1..r : \A column \in -1..c :
        \A role \in {EditRole, DisplayRole} :
          setData(QModelIndex(valid, row, column), 0, role) =>
              IF /\ valid
                 /\ role = EditRole
                 /\ row >= 0 /\ row < r
                 /\ column >= 0 /\ column < c
              THEN /\ op'.ret = "True"
                   /\ Len(signals') = 1
                   /\ signals'[1].name = "dataChanged"
                   /\ _array'.rows[row + 1][column + 1] = 0
              ELSE /\ op'.ret = "False"
                   /\ signals' = << >>
                   /\ tableVars' = tableVars ]_vars

\* C12: switching auto refresh on sets the refresh counter to zero and arms
\* the timer at the configured interval; no refresh runs as part of it and
\* the timer expires only after a full interval.
C12_EnableSemantics ==
    [][ (~w_arefbut /\ w_arefbut') =>
            /\ arefcnt' = 0
            /\ arefrte' = arefrte
            /\ areftmr'.active
            /\ areftmr'.interval = arefrte
            /\ ~areftmr'.due
            /\ pc' = pc
            /\ inflight' = inflight
            /\ cycle' = cycle
            /\ tableVars' = tableVars ]_vars

\* Auto refresh has been switched on after a refresh had counted: the
\* counter is back at zero and the timer is armed at two seconds, not yet
\* expired.
C12_Witness ==
    /\ w_arefbut
    /\ arefcnt = 0
    /\ cycle.result = "ok"
    /\ areftmr.active
    /\ areftmr.interval = 2000
    /\ ~areftmr.due
    /\ pc = "idle"

\* C13: update_model emits exactly one layoutAboutToBeChanged/layoutChanged
\* pair around the whole replacement: the first signal is observed with the
\* old headers, sort column and matching dimensions, the second with the
\* new headers, the resolved sort column, the new dimensions and the rows
\* already in order; a 3-row snapshot installed on an empty table gives
\* rowCount() 3.
C13_AtomicReplace ==
    op.name = "update_model" =>
        /\ Len(signals) = 2
        /\ signals[1].name = "layoutAboutToBeChanged"
        /\ signals[1].headers = pre.headers
        /\ signals[1].sortby = pre.sortby
        /\ signals[1].consistent
        /\ signals[1].ordered
        /\ signals[2] = emit("layoutChanged", _array, _headers, r, c, _sortby)
        /\ signals[2].consistent
        /\ signals[2].ordered
        /\ _array.shape = pre.array.shape
        /\ (signals[1].empty /\ pre.array.shape[1] = 3) => r = 3

\* A 3-row snapshot whose rows arrive out of order, under other headers, has
\* replaced an empty table.
C13_Witness ==
    /\ op.name = "update_model"
    /\ signals[1].empty
    /\ r = 3
    /\ pre.headers # _headers
    /\ pre.array.rows # _array.rows

\* C14: data() displays a cell of a timestamp column as 'N/A' when its raw
\* value is the epoch second 18000 and as the calendar date of its raw value
\* when it is any other epoch second.
C14_EpochSentinel ==
    [][ \A row \in 0..(r - 1) : \A column \in 0..(c - 1) : \A utcoffset \in UtcOffsets :
          ( /\ data_called(QModelIndex(TRUE, row, column), DisplayRole, utcoffset)
            /\ _headers[column + 1] \in SQUEUE_TIMEVAR ) =>
              LET raw == _array.rows[row + 1][column + 1].epoch
              IN  IF raw = 18000
                  THEN shown'.ret = ReturnedStr("N/A")
                  ELSE shown'.ret = ReturnedIso(isoformat(Timestamp(raw))) ]_vars

\* C15: while auto refresh stays switched on, timer-driven cycles keep
\* starting: after every completed cycle, a failed one included, the
\* process is alive and the timer is armed, so that its next expiry starts
\* a new cycle.
C15_SchedulerLiveness ==
    (w_arefbut /\ pc = "idle" /\ cycle.result \notin {"none", "running"}) =>
        /\ running
        /\ areftmr.active

\* C16: a rate in 1..9999 changes the interval and nothing else: a stopped
\* timer stays stopped and a running one stays running, and the check box,
\* the refresh counter, the table and the refresh in progress are as they
\* were.
C16_SetIntervalFrame ==
    [][ \A e \in UserInputs :
          (RateEdited(e) /\ e.text # w_arefrte /\ C4_InRange(e.text)) =>
              /\ arefrte' = 1000 * int(e.text)
              /\ areftmr'.interval = arefrte'
              /\ areftmr'.active = areftmr.active
              /\ w_arefbut' = w_arefbut
              /\ arefcnt' = arefcnt
              /\ tableVars' = tableVars
              /\ pc' = pc
              /\ cycle' = cycle ]_vars

\* The rate has been changed to 2 seconds; the timer is running at that
\* interval after a timer-driven refresh that counted and filled the table.
C16_Witness ==
    /\ w_arefrte = << "2" >>
    /\ arefrte = 2000
    /\ areftmr.active
    /\ areftmr.interval = 2000
    /\ cycle.cause = "timer"
    /\ arefcnt >= 1
    /\ r >= 1
    /\ pc = "idle"

\* C17: a header click that arrives while a refresh is in flight stays
\* queued without touching the sort column or direction; when it is
\* delivered after the refresh it becomes the sort column and direction,
\* applied to the rows then installed, and the rows are sorted accordingly
\* (ascending = smallest first).  Clicks are delivered oldest first, so the
\* last one delivered decides.
C17_SortDuringRefresh ==
    [][ /\ (pc = "refresh" /\ queue # <<>> /\ Head(queue).type = "header") =>
              /\ queue' # <<>>
              /\ Head(queue') = Head(queue)
              /\ _sortby' = _sortby
              /\ _sortord' = _sortord
        /\ (pc = "idle" /\ queue # <<>> /\ Head(queue).type = "header"
                /\ queue' = Tail(queue)) =>
              /\ _sortby' = Head(queue).column
              /\ _sortord' = Head(queue).order
              /\ Len(_array'.rows) = Len(_array.rows)
              /\ \A i \in 1..Len(_array.rows) : InSeq(_array.rows[i], _array'.rows)
              /\ OrderedAs(ColumnKeys(_array', _headers', _sortby'), _sortord') ]_vars

\* C18: a refresh whose squeue call succeeds and reports no job, or only
\* jobs that the state and user filters drop, completes without error and
\* installs an empty table: rowCount() is 0, columnCount() is 7 and no row
\* is left.
C18_EmptyResult ==
    [][ (pc = "refresh" /\ pc' = "idle" /\ cycle'.result # SourceError
            /\ \A i \in 1..Len(cycle'.records) :
                  ~C10_Qualifies(cycle'.records[i], cycle'.self)) =>
              /\ cycle'.result = "ok"
              /\ op'.name = "update_model"
              /\ r' = 0
              /\ c' = 7
              /\ _array'.rows = << >> ]_vars

\* C19: the refresh interval is always 1000 * k milliseconds for a k in
\* 1..9999, and a running timer always runs at that interval.
C19_IntervalWellFormed ==
    /\ arefrte % 1000 = 0
    /\ (arefrte \div 1000) \in 1..9999
    /\ areftmr.active => areftmr.interval = arefrte

\* The timer, running at an interval changed to 2 seconds, has expired
\* again after two refreshes were counted.
C19_Witness ==
    /\ areftmr.active
    /\ areftmr.due
    /\ areftmr.interval = 2000
    /\ arefrte = 2000
    /\ arefcnt = 2

\* How many times row x occurs in a sequence of rows
C20_Count(x, rows) == Cardinality({ i \in 1..Len(rows) : rows[i] = x })

\* The two sequences hold the same rows the same number of times
C20_SameRows(a, b) ==
    /\ Len(a) = Len(b)
    /\ \A i \in 1..Len(a) : C20_Count(a[i], a) = C20_Count(a[i], b)

\* C20: sort adds, drops and alters no row and no header: the rows after
\* it are the rows before it, each as many times, under the same headers;
\* the rows installed by update_model are, in the same way, the rows of the
\* array it was given.
C20_SortIsPermutation ==
    /\ op.name = "sort" =>
          /\ C20_SameRows(pre.array.rows, _array.rows)
          /\ _array.shape = pre.array.shape
          /\ _headers = pre.headers
    /\ op.name = "update_model" =>
          /\ C20_SameRows(pre.array.rows, _array.rows)
          /\ _array.shape = pre.array.shape

\* An ascending sort has reordered three rows, two of them equal.
C20_Witness ==
    /\ op.name = "sort"
    /\ op.order = AscendingOrder
    /\ r = 3
    /\ _array.rows # pre.array.rows
    /\ \E i, j \in 1..3 : i # j /\ _array.rows[i] = _array.rows[j]

====
